---- MODULE Spec2Model ----
(***************************************************************************)
(* Model of the DFA execution engine of automata-2.py: the DFA class, the  *)
(* two hardcoded definitions (a/b and 0/1) and the step-by-step walk of    *)
(* simulate_dfa_ab / simulate_dfa_01.  A call of simulate is modelled one  *)
(* loop iteration at a time; strings are sequences of one-character        *)
(* strings; Python's None is the string "None" for a state or a symbol and *)
(* the record NoError for the error of a result.                           *)
(***************************************************************************)
EXTENDS Integers, Sequences, FiniteSets, TLC

\* ---------------------------------------------------------------- bounds
\* longest enumerated input string
MaxLen == 3
\* longest enumerated input string of the repeated-call specification
MaxDetLen == 2

\* ------------------------------------------------------- Python's values
\* None where a state or a symbol is expected
None == "None"
\* None where an error message is expected
NoError == [message |-> "None"]

\* characters an input field may hold: both alphabets and a foreign one
Chars == {"a", "b", "0", "1", "c"}

\* --------------------------------------------------- hardcoded definition
\* variant: the trap states are not listed among the states
states_ab_noTraps ==
    {"0", "1", "2", "3", "4", "5", "6", "7", "8", "9", "10", "11", "12", "13",
     "14", "15", "16", "17", "18", "19", "20", "21", "22"}

states_ab ==
    {"0", "1", "2", "3", "4", "5", "6", "7", "8", "9", "10", "11", "12", "13",
     "14", "15", "16", "17", "18", "19", "20", "21", "22", "T1", "T2"}

states_01 ==
    {"0", "1", "2", "3", "4", "5", "6", "7", "8", "9", "10", "11", "12", "13",
     "14", "15", "16", "17", "18", "19", "20", "21", "22", "23", "24", "25", "26",
     "27", "28", "29", "30", "31", "32", "33", "34", "T1", "T2", "T3"}

\* the key: value lines of the dict literal, in source order
transition_entries_ab ==
    <<
       <<"0", "b", "1">>, <<"0", "a", "2">>, <<"1", "b", "2">>, <<"1", "a", "T1">>,
       <<"2", "b", "T1">>, <<"T1", "a", "T1">>, <<"T1", "b", "T1">>, <<"2", "a", "1">>,
       <<"1", "b", "3">>, <<"2", "a", "3">>, <<"3", "b", "5">>, <<"3", "a", "4">>,
       <<"4", "b", "6">>, <<"4", "a", "T2">>, <<"T2", "a", "T2">>, <<"T2", "b", "T2">>,
       <<"5", "a", "7">>, <<"5", "b", "8">>, <<"6", "a", "9">>, <<"6", "b", "T2">>,
       <<"7", "b", "9">>, <<"8", "b", "9">>, <<"8", "a", "T2">>, <<"9", "a", "10">>,
       <<"9", "b", "11">>, <<"10", "a", "12">>, <<"10", "b", "11">>, <<"11", "b", "12">>,
       <<"11", "a", "10">>, <<"12", "b", "13">>, <<"13", "b", "12">>, <<"13", "a", "10">>,
       <<"12", "a", "14">>, <<"14", "b", "14">>, <<"14", "a", "15">>, <<"15", "b", "15">>,
       <<"15", "a", "16">>, <<"16", "b", "18">>, <<"16", "a", "17">>, <<"17", "a", "18">>,
       <<"17", "b", "16">>, <<"18", "a", "19">>, <<"18", "b", "16">>, <<"16", "b", "20">>,
       <<"20", "b", "21">>, <<"20", "a", "16">>, <<"21", "b", "22">>, <<"21", "a", "16">>,
       <<"22", "b", "22">>, <<"22", "a", "22">>, <<"19", "a", "19">>, <<"19", "b", "19">>
    >>

transition_entries_01 ==
    <<
       <<"0", "1", "0">>, <<"0", "0", "1">>, <<"1", "1", "1">>, <<"1", "0", "2">>,
       <<"2", "1", "3">>, <<"2", "0", "4">>, <<"3", "1", "5">>, <<"4", "1", "T1">>,
       <<"4", "0", "5">>, <<"3", "0", "T1">>, <<"T1", "1", "T1">>, <<"T1", "0", "T1">>,
       <<"5", "1", "6">>, <<"5", "0", "9">>, <<"6", "0", "7">>, <<"6", "1", "12">>,
       <<"7", "0", "5">>, <<"7", "1", "10">>, <<"9", "1", "8">>, <<"8", "1", "5">>,
       <<"8", "0", "11">>, <<"11", "1", "9">>, <<"9", "0", "13">>, <<"12", "1", "14">>,
       <<"14", "1", "18">>, <<"14", "0", "T1">>, <<"12", "0", "15">>, <<"15", "0", "19">>,
       <<"15", "1", "T1">>, <<"13", "1", "16">>, <<"16", "1", "20">>, <<"16", "0", "T2">>,
       <<"13", "0", "17">>, <<"17", "0", "21">>, <<"17", "1", "T2">>, <<"T2", "1", "T2">>,
       <<"T2", "0", "T2">>, <<"10", "1", "18">>, <<"10", "0", "6">>, <<"11", "0", "21">>,
       <<"18", "1", "22">>, <<"18", "0", "23">>, <<"19", "0", "23">>, <<"19", "1", "22">>,
       <<"20", "0", "23">>, <<"20", "1", "22">>, <<"21", "0", "23">>, <<"21", "1", "22">>,
       <<"22", "0", "25">>, <<"22", "1", "24">>, <<"24", "0", "24">>, <<"24", "1", "28">>,
       <<"25", "1", "29">>, <<"25", "0", "T2">>, <<"29", "1", "30">>, <<"28", "0", "28">>,
       <<"28", "1", "30">>, <<"23", "1", "30">>, <<"23", "0", "26">>, <<"26", "1", "30">>,
       <<"26", "0", "27">>, <<"27", "0", "21">>, <<"27", "1", "30">>, <<"30", "1", "31">>,
       <<"30", "0", "30">>, <<"31", "1", "32">>, <<"31", "0", "31">>, <<"32", "1", "33">>,
       <<"32", "0", "34">>, <<"33", "1", "32">>, <<"33", "0", "T3">>, <<"34", "0", "32">>,
       <<"34", "1", "T3">>, <<"T3", "1", "T3">>, <<"T3", "0", "T3">>
    >>

\* variant: a key written more than once keeps its first value
DictLiteral_firstWins(entries) ==
    LET Keys == {<<entries[n][1], entries[n][2]>> : n \in 1..Len(entries)}
        First(k) == CHOOSE n \in 1..Len(entries) :
                      /\ <<entries[n][1], entries[n][2]>> = k
                      /\ \A m \in 1..(n - 1) :
                            <<entries[m][1], entries[m][2]>> /= k
    IN  [k \in Keys |-> entries[First(k)][3]]

\* a Python dict literal: a key written more than once keeps its last value
DictLiteral(entries) ==
    LET Keys == {<<entries[n][1], entries[n][2]>> : n \in 1..Len(entries)}
        Last(k) == CHOOSE n \in 1..Len(entries) :
                      /\ <<entries[n][1], entries[n][2]>> = k
                      /\ \A m \in (n+1)..Len(entries) :
                            <<entries[m][1], entries[m][2]>> /= k
    IN  [k \in Keys |-> entries[Last(k)][3]]

\* variant: T1 is left again on an 'a'
transition_function_ab_trapLeaves ==
    [DictLiteral(transition_entries_ab) EXCEPT ![<<"T1", "a">>] = "0"]

transition_function_ab == DictLiteral(transition_entries_ab)

\* variant: state 29 has a transition on '0' as well
transition_function_01_noGap ==
    LET tf == DictLiteral(transition_entries_01)
    IN  [k \in DOMAIN tf \cup {<<"29", "0">>} |->
            IF k = <<"29", "0">> THEN "T1" ELSE tf[k]]

transition_function_01 == DictLiteral(transition_entries_01)

start_state == "0"

\* variant: the second accept state is left out
accept_states_ab_only19 == {"19"}

accept_states_ab == {"19", "22"}

accept_states_01 == {"30", "31", "32"}

\* DFA.__init__: stores its seven arguments, checks nothing
DFA__init__(sts_ab, sts_01, alphabet, transition_function, start, acc_ab, acc_01) ==
    [states_ab |-> sts_ab,
     states_01 |-> sts_01,
     alphabet |-> alphabet,
     transition_function |-> transition_function,
     start_state |-> start,
     accept_states_ab |-> acc_ab,
     accept_states_01 |-> acc_01]

\* dfa = DFA(...) of the "a and b" branch
dfa_ab ==
    DFA__init__(states_ab, states_01, {"a", "b"}, transition_function_ab,
                start_state, accept_states_ab, accept_states_01)

\* dfa = DFA(...) of the "0 and 1" branch
dfa_01 ==
    DFA__init__(states_ab, states_01, {"0", "1"}, transition_function_01,
                start_state, accept_states_ab, accept_states_01)

Options == {"a and b", "0 and 1"}

DefinitionOf(opt) == IF opt = "a and b" THEN dfa_ab ELSE dfa_01

\* ------------------------------------------------------------- the inputs
RECURSIVE SeqsUpTo(_)
SeqsUpTo(n) ==
    IF n = 0 THEN {<<>>}
    ELSE LET S == SeqsUpTo(n - 1)
         IN  S \cup {Append(s, c) : s \in {t \in S : Len(t) = n - 1}, c \in Chars}

\* longer strings that reach the accept states, the traps and the table gaps
ExtraInputs ==
    {<<"a", "a", "b", "a", "a">>,
     <<"a", "a", "b", "a", "a", "c">>,
     <<"a", "a", "b", "a", "c">>,
     <<"a", "a", "a", "a", "b">>,
     <<"a", "a", "a", "b", "a", "a", "a", "a", "a", "a", "a", "a", "a">>,
     <<"a", "a", "a", "b", "a", "a", "a", "a", "a", "a", "b", "b", "b">>,
     <<"0", "0", "0", "1", "0">>,
     <<"0", "0", "0", "0", "0", "0", "0", "0", "1", "0", "1", "0">>,
     <<"0", "0", "0", "0", "0", "0", "0", "0", "1", "0", "1", "0", "c">>,
     <<"0", "0", "0", "0", "0", "0", "0", "0", "0", "1">>,
     <<"0", "0", "0", "0", "0", "0", "0", "0", "0", "1", "1", "1">>}

\* sidebar, "Valid Strings", for a and b language
valid_strings_ab ==
    {<<"a", "a", "b", "b", "b", "a", "b", "a", "a", "a", "b", "b", "b", "b", "a", "a", "a", "a", "a", "a", "a", "a", "b", "b", "b", "a", "b">>,
     <<"b", "b", "a", "b", "a", "b", "b", "b", "a", "a", "a", "b", "b", "a", "b", "b", "a", "a", "b", "b", "a", "b", "b", "a", "b", "b", "b", "a", "b">>,
     <<"a", "a", "b", "a", "b", "a", "b", "a", "b", "a", "b", "b", "b", "b", "b", "a", "a", "a", "a", "b", "a", "b", "a", "a", "a", "a", "b", "a">>,
     <<"b", "b", "a", "b", "a", "b", "b", "b", "b", "a", "b", "a", "b", "a", "a", "b", "a", "b", "a", "b", "b", "b", "b">>}

\* sidebar, "Valid Strings", for 0 and 1 language
valid_strings_01 ==
    {<<"0", "0", "1", "1", "0", "0", "0", "0", "0", "0", "1", "1", "1">>,
     <<"1", "0", "1", "0", "1", "1", "1", "0", "1", "0", "1", "1", "1", "0", "0", "1", "0", "0", "1", "0", "0", "1", "1", "1">>,
     <<"0", "0", "0", "0", "0", "1", "0", "0", "0", "0", "0", "0", "0", "0", "1", "1", "1", "0", "0">>,
     <<"0", "0", "1", "1", "1", "0", "1", "1", "1", "1", "1", "1", "1", "1", "1", "1", "1", "1", "1", "1">>}

\* sidebar, "Invalid Strings", for a and b language (wrapped entries joined)
invalid_strings_ab ==
    {<<"b", "b", "a", "b", "a", "b", "a", "b", "a", "b", "b", "a", "b", "b", "a", "b", "b", "a", "b", "b", "a", "a", "b", "b", "a", "b", "b", "a", "b", "a", "b", "a">>,
     <<"a", "a", "b", "a", "b", "b", "b", "b", "a", "b", "a", "b", "a", "a", "b", "b", "a", "a", "a", "b", "b", "a", "b", "b", "a", "a", "b", "b", "a", "b", "b", "a", "b", "b", "a", "b", "a", "b">>,
     <<"b", "b", "b", "b", "b", "a", "b", "a", "b">>,
     <<"a", "a", "b", "a", "b", "a", "b", "a", "b", "b", "b", "a", "b", "a", "b", "b", "b", "b", "b">>}

\* sidebar, "Invalid Strings", for 0 and 1 language
invalid_strings_01 ==
    {<<"0", "0", "0", "0", "1", "0", "0", "0", "0", "1", "1", "1">>,
     <<"0", "0", "1", "1", "0", "1", "1", "1", "0", "1", "1", "1", "1">>,
     <<"0", "0", "1", "1", "0", "1", "1", "0", "0", "1", "0", "1", "1", "1", "1">>,
     <<"0", "0", "1", "0", "0", "0", "0", "0", "1", "0", "1", "1", "1">>}

SidebarInputs ==
    valid_strings_ab \cup valid_strings_01 \cup invalid_strings_ab \cup invalid_strings_01

\* strings on which the tables and the displayed expressions can be compared
RegexInputs ==
    {<<"a", "a", "a", "b", "a", "a", "a", "a", "a", "a", "a", "b", "b", "b">>,
     <<"a", "a", "a", "b", "a", "a", "a", "a", "a", "a", "a", "b", "a", "a", "a">>,
     <<"0", "0", "0", "0", "0", "0", "0", "0", "1", "1", "1">>}

\* simulate is a function of any string, the empty one included (the input
\* loop of the page calls it for non-empty text only)
Inputs == SeqsUpTo(MaxLen) \cup ExtraInputs \cup SidebarInputs \cup RegexInputs

DetInputs == SeqsUpTo(MaxDetLen) \cup ExtraInputs

\* ---------------------------------------------------------------- state
VARIABLES
    option,         \* the language chosen in the selectbox
    dfa,            \* the DFA object built for that language
    input_string,   \* argument of the running (or last) simulate call
    pc,             \* "idle", "loop" (inside the for loop) or "returned"
    current_state,  \* local of simulate
    path,           \* local of simulate: list of (state, symbol)
    pos,            \* number of symbols the for loop has gone past
    result,         \* the returned (path, accepted, error), <<>> before
    prior,          \* an earlier call kept by the caller: (dfa, input, result)
    runs,           \* one simulate call per input field, when they interleave
    replay          \* the Simulate button's handler: frames shown so far

\* the state of the page around the single call
pagevars == <<runs, replay>>

vars == <<option, dfa, input_string, pc, current_state, path, pos, result, prior,
          runs, replay>>

\* for idx in range(5): the input fields of a language
NumFields == 5

Fields == 1..NumFields

\* a field whose call has not started
RunIdle ==
    [input_string |-> <<>>, pc |-> "idle", current_state |-> None,
     path |-> <<>>, pos |-> 0, result |-> <<>>]

\* the handler before the Simulate button is clicked
ReplayOff ==
    [pc |-> "off", step_idx |-> 0, stop |-> FALSE, frames |-> <<>>,
     warned |-> FALSE, verdict |-> "none", shown_error |-> NoError]

\* f"Invalid symbol '{symbol}'": the literal text and the interpolated value
InvalidSymbolMessage(symbol) ==
    [message |-> "Invalid symbol", symbol |-> symbol]

\* f"No transition from {current_state} on '{symbol}'"
NoTransitionMessage(state, symbol) ==
    [message |-> "No transition", state |-> state, symbol |-> symbol]

\* dict.get(key): the value, or None for an absent key
Get(d, key) == IF key \in DOMAIN d THEN d[key] ELSE None

Init ==
    /\ option = "a and b"
    /\ dfa = dfa_ab
    /\ input_string = <<>>
    /\ pc = "idle"
    /\ current_state = None
    /\ path = <<>>
    /\ pos = 0
    /\ result = <<>>
    /\ prior = <<>>
    /\ runs = [r \in Fields |-> RunIdle]
    /\ replay = ReplayOff

\* the selectbox changes: the script reruns and builds the DFA of the option
SelectLanguage ==
    /\ pc \in {"idle", "returned"}
    /\ \E opt \in Options :
          /\ option' = opt
          /\ dfa' = DefinitionOf(opt)
    /\ pc' = "idle"
    /\ input_string' = <<>>
    /\ current_state' = None
    /\ path' = <<>>
    /\ pos' = 0
    /\ result' = <<>>
    /\ UNCHANGED <<prior, pagevars>>

\* variant: current_state is kept from the previous call instead of reset
CallWith_stale(S) ==
    /\ pc \in {"idle", "returned"}
    /\ \E s \in S : input_string' = s
    /\ current_state' = (IF current_state = None THEN dfa.start_state
                         ELSE current_state)
    /\ path' = <<<<current_state', None>>>>
    /\ pos' = 0
    /\ result' = <<>>
    /\ pc' = "loop"
    /\ UNCHANGED <<option, dfa, prior, pagevars>>

\* variant: the path starts empty, without the (start_state, None) element
CallWith_emptyPath(S) ==
    /\ pc \in {"idle", "returned"}
    /\ \E s \in S : input_string' = s
    /\ current_state' = dfa.start_state
    /\ path' = <<>>
    /\ pos' = 0
    /\ result' = <<>>
    /\ pc' = "loop"
    /\ UNCHANGED <<option, dfa, prior, pagevars>>

\* entry of simulate_dfa_ab / simulate_dfa_01 up to the for statement
CallWith(S) ==
    /\ pc \in {"idle", "returned"}
    /\ \E s \in S : input_string' = s
    /\ current_state' = dfa.start_state
    /\ path' = <<<<dfa.start_state, None>>>>
    /\ pos' = 0
    /\ result' = <<>>
    /\ pc' = "loop"
    /\ UNCHANGED <<option, dfa, prior, pagevars>>

Call == CallWith(Inputs)

\* variant: the offending symbol is recorded in the path before returning
ReturnInvalidSymbol_appended ==
    /\ pc = "loop"
    /\ pos < Len(input_string)
    /\ LET symbol == input_string[pos + 1]
       IN  /\ symbol \notin dfa.alphabet
           /\ result' = <<Append(path, <<current_state, symbol>>), FALSE,
                          InvalidSymbolMessage(symbol)>>
    /\ pc' = "returned"
    /\ UNCHANGED <<option, dfa, input_string, current_state, path, pos, prior, pagevars>>

\* variant: a symbol outside the alphabet raises instead of returning
ReturnInvalidSymbol_raised ==
    /\ pc = "loop"
    /\ pos < Len(input_string)
    /\ input_string[pos + 1] \notin dfa.alphabet
    /\ pc' = "raised"
    /\ UNCHANGED <<option, dfa, input_string, current_state, path, pos, result, prior, pagevars>>

\* variant: a symbol outside the alphabet is skipped instead of reported
ReturnInvalidSymbol_skipped ==
    /\ pc = "loop"
    /\ pos < Len(input_string)
    /\ input_string[pos + 1] \notin dfa.alphabet
    /\ pos' = pos + 1
    /\ UNCHANGED <<option, dfa, input_string, pc, current_state, path, result, prior, pagevars>>

\* loop body, first branch: the symbol is not in the alphabet
ReturnInvalidSymbol ==
    /\ pc = "loop"
    /\ pos < Len(input_string)
    /\ LET symbol == input_string[pos + 1]
       IN  /\ symbol \notin dfa.alphabet
           /\ result' = <<path, FALSE, InvalidSymbolMessage(symbol)>>
    /\ pc' = "returned"
    /\ UNCHANGED <<option, dfa, input_string, current_state, path, pos, prior, pagevars>>

\* variant: the table is consulted without the alphabet test before it
ReturnNoTransition_unchecked ==
    /\ pc = "loop"
    /\ pos < Len(input_string)
    /\ LET symbol == input_string[pos + 1]
           next_state == Get(dfa.transition_function, <<current_state, symbol>>)
       IN  /\ next_state = None
           /\ result' = <<path, FALSE, NoTransitionMessage(current_state, symbol)>>
    /\ pc' = "returned"
    /\ UNCHANGED <<option, dfa, input_string, current_state, path, pos, prior, pagevars>>

\* loop body, second branch: the table has no entry for (state, symbol)
ReturnNoTransition ==
    /\ pc = "loop"
    /\ pos < Len(input_string)
    /\ LET symbol == input_string[pos + 1]
           next_state == Get(dfa.transition_function, <<current_state, symbol>>)
       IN  /\ symbol \in dfa.alphabet
           /\ next_state = None
           /\ result' = <<path, FALSE, NoTransitionMessage(current_state, symbol)>>
    /\ pc' = "returned"
    /\ UNCHANGED <<option, dfa, input_string, current_state, path, pos, prior, pagevars>>

\* variant: the walk stops as soon as it enters a state that only loops
Advance_haltOnTrap ==
    /\ pc = "loop"
    /\ pos < Len(input_string)
    /\ LET symbol == input_string[pos + 1]
           tf == dfa.transition_function
           next_state == Get(tf, <<current_state, symbol>>)
           loops == \A k \in DOMAIN tf : k[1] = next_state => tf[k] = next_state
       IN  /\ symbol \in dfa.alphabet
           /\ next_state /= None
           /\ path' = Append(path, <<next_state, symbol>>)
           /\ current_state' = next_state
           /\ IF loops
              THEN pc' = "returned" /\ result' = <<path', FALSE, NoError>>
              ELSE UNCHANGED <<pc, result>>
    /\ pos' = pos + 1
    /\ UNCHANGED <<option, dfa, input_string, prior, pagevars>>

\* variant: the step records the state it leaves, not the one it enters
Advance_oldState ==
    /\ pc = "loop"
    /\ pos < Len(input_string)
    /\ LET symbol == input_string[pos + 1]
           next_state == Get(dfa.transition_function, <<current_state, symbol>>)
       IN  /\ symbol \in dfa.alphabet
           /\ next_state /= None
           /\ path' = Append(path, <<current_state, symbol>>)
           /\ current_state' = next_state
    /\ pos' = pos + 1
    /\ UNCHANGED <<option, dfa, input_string, pc, result, prior, pagevars>>

\* loop body, the step: append (next_state, symbol) and move on
Advance ==
    /\ pc = "loop"
    /\ pos < Len(input_string)
    /\ LET symbol == input_string[pos + 1]
           next_state == Get(dfa.transition_function, <<current_state, symbol>>)
       IN  /\ symbol \in dfa.alphabet
           /\ next_state /= None
           /\ path' = Append(path, <<next_state, symbol>>)
           /\ current_state' = next_state
    /\ pos' = pos + 1
    /\ UNCHANGED <<option, dfa, input_string, pc, result, prior, pagevars>>

\* variant: simulate_dfa_ab tests the states instead of the accept states
Finish_ab_anyState ==
    /\ pc = "loop"
    /\ option = "a and b"
    /\ pos = Len(input_string)
    /\ result' = <<path, current_state \in dfa.states_ab, NoError>>
    /\ pc' = "returned"
    /\ UNCHANGED <<option, dfa, input_string, current_state, path, pos, prior, pagevars>>

\* simulate_dfa_ab after the loop
Finish_ab ==
    /\ pc = "loop"
    /\ option = "a and b"
    /\ pos = Len(input_string)
    /\ result' = <<path, current_state \in dfa.accept_states_ab, NoError>>
    /\ pc' = "returned"
    /\ UNCHANGED <<option, dfa, input_string, current_state, path, pos, prior, pagevars>>

\* variant: simulate_dfa_01 tests the a/b accept states
Finish_01_acceptAb ==
    /\ pc = "loop"
    /\ option = "0 and 1"
    /\ pos = Len(input_string)
    /\ result' = <<path, current_state \in dfa.accept_states_ab, NoError>>
    /\ pc' = "returned"
    /\ UNCHANGED <<option, dfa, input_string, current_state, path, pos, prior, pagevars>>

\* simulate_dfa_01 after the loop
Finish_01 ==
    /\ pc = "loop"
    /\ option = "0 and 1"
    /\ pos = Len(input_string)
    /\ result' = <<path, current_state \in dfa.accept_states_01, NoError>>
    /\ pc' = "returned"
    /\ UNCHANGED <<option, dfa, input_string, current_state, path, pos, prior, pagevars>>

LoopStep ==
    \/ ReturnInvalidSymbol
    \/ ReturnNoTransition
    \/ Advance
    \/ Finish_ab
    \/ Finish_01

Next ==
    \/ SelectLanguage
    \/ Call
    \/ ReturnInvalidSymbol
    \/ ReturnNoTransition
    \/ Advance
    \/ Finish_ab
    \/ Finish_01

Spec == Init /\ [][Next]_vars

\* ------------------------------------------------------- repeated calls
\* the next call starts once the caller is done with the previous result
CallDet == pc = "idle" /\ CallWith(DetInputs)

\* the caller keeps what a call returned, to compare later calls with it
Remember ==
    /\ pc = "returned"
    /\ prior' = <<dfa, input_string, result>>
    /\ pc' = "idle"
    /\ input_string' = <<>>
    /\ path' = <<>>
    /\ pos' = 0
    /\ result' = <<>>
    /\ UNCHANGED <<option, dfa, current_state, pagevars>>

\* the caller drops what a call returned
Discard ==
    /\ pc = "returned"
    /\ pc' = "idle"
    /\ input_string' = <<>>
    /\ path' = <<>>
    /\ pos' = 0
    /\ result' = <<>>
    /\ UNCHANGED <<option, dfa, current_state, prior, pagevars>>

NextDet ==
    \/ SelectLanguage
    \/ CallDet
    \/ ReturnInvalidSymbol
    \/ ReturnNoTransition
    \/ Advance
    \/ Finish_ab
    \/ Finish_01
    \/ Remember
    \/ Discard

SpecDet == Init /\ [][NextDet]_vars

\* ------------------------------------------------------- DFA.accepts
\* the for loop of DFA.accepts from symbol i on, and the return after it
RECURSIVE accepts_from(_, _, _, _)
accepts_from(self, string, i, state) ==
    IF i > Len(string)
    THEN IF self.alphabet = {"a", "b"}
         THEN state \in self.accept_states_ab
         ELSE state \in self.accept_states_01
    ELSE LET symbol == string[i]
             next_state == Get(self.transition_function, <<state, symbol>>)
         IN  IF symbol \notin self.alphabet THEN FALSE
             ELSE IF next_state = None THEN FALSE
             ELSE accepts_from(self, string, i + 1, next_state)

\* variant: the accept set of a/b is used whatever the alphabet
accepts_abOnly(self, string) ==
    accepts_from([self EXCEPT !.accept_states_01 = self.accept_states_ab],
                 string, 1, self.start_state)

\* DFA.accepts(input_string)
accepts(self, string) ==
    accepts_from(self, string, 1, self.start_state)

\* ------------------------------------------- calls of several fields
\* strings of the interleaved calls: a trap walk, a foreign symbol and a
\* 0/1 string
ParInputs == {<<"a", "b">>, <<"c">>, <<"0", "1">>}

\* simulate_dfa_ab / simulate_dfa_01 up to the for statement, on a call's
\* own locals
RunEntry(d, s) ==
    [input_string |-> s, pc |-> "loop", current_state |-> d.start_state,
     path |-> <<<<d.start_state, None>>>>, pos |-> 0, result |-> <<>>]

\* one loop iteration, or the statements after the loop, on a call's own
\* locals
RunStep(d, opt, run) ==
    IF run.pos < Len(run.input_string)
    THEN LET symbol == run.input_string[run.pos + 1]
             next_state == Get(d.transition_function, <<run.current_state, symbol>>)
         IN  IF symbol \notin d.alphabet
             THEN [run EXCEPT !.pc = "returned",
                              !.result = <<run.path, FALSE, InvalidSymbolMessage(symbol)>>]
             ELSE IF next_state = None
             THEN [run EXCEPT !.pc = "returned",
                              !.result = <<run.path, FALSE,
                                           NoTransitionMessage(run.current_state, symbol)>>]
             ELSE [run EXCEPT !.path = Append(@, <<next_state, symbol>>),
                              !.current_state = next_state,
                              !.pos = @ + 1]
    ELSE LET accept == IF opt = "a and b" THEN d.accept_states_ab
                       ELSE d.accept_states_01
         IN  [run EXCEPT !.pc = "returned",
                         !.result = <<run.path, run.current_state \in accept, NoError>>]

\* the selectbox changes while no call is running: every field starts over
ParSelect ==
    /\ \A r \in Fields : runs[r].pc /= "loop"
    /\ \E opt \in Options :
          /\ option' = opt
          /\ dfa' = DefinitionOf(opt)
    /\ runs' = [r \in Fields |-> RunIdle]
    /\ UNCHANGED <<input_string, pc, current_state, path, pos, result, prior, replay>>

\* the call of field r starts
ParCall(r) ==
    /\ runs[r].pc \in {"idle", "returned"}
    /\ \E s \in ParInputs : runs' = [runs EXCEPT ![r] = RunEntry(dfa, s)]
    /\ UNCHANGED <<option, dfa, input_string, pc, current_state, path, pos, result,
                   prior, replay>>

\* variant: current_state is one variable shared by all the calls
ParStep_sharedState(r) ==
    /\ runs[r].pc = "loop"
    /\ LET mine == IF current_state = None THEN runs[r]
                   ELSE [runs[r] EXCEPT !.current_state = current_state]
           next == RunStep(dfa, option, mine)
       IN  /\ runs' = [runs EXCEPT ![r] = next]
           /\ current_state' = next.current_state
    /\ UNCHANGED <<option, dfa, input_string, pc, path, pos, result, prior, replay>>

\* the call of field r executes its next loop step
ParStep(r) ==
    /\ runs[r].pc = "loop"
    /\ runs' = [runs EXCEPT ![r] = RunStep(dfa, option, runs[r])]
    /\ UNCHANGED <<option, dfa, input_string, pc, current_state, path, pos, result,
                   prior, replay>>

NextPar ==
    \/ ParSelect
    \/ \E r \in Fields : ParCall(r)
    \/ \E r \in Fields : ParStep(r)

SpecPar == Init /\ [][NextPar]_vars

\* ------------------------------------------------ reading a returned call
Returned == pc = "returned"
Trace == result[1]
Accepted == result[2]
Error == result[3]

\* ------------------------------------------------ the Simulate button
\* input_pos of the replay loop for the frame of trace index step_idx
InputPos(step_idx) == IF step_idx = 0 THEN 0 ELSE step_idx - 1

\* if test_input: an empty field is not simulated and has no button
UIInputs == DetInputs \ {<<>>}

\* what one iteration of the replay loop renders
Frame(step_idx, state, symbol) ==
    [active_state |-> state, input_pos |-> InputPos(step_idx), symbol |-> symbol]

UISelect == replay.pc = "off" /\ SelectLanguage

UICall == replay.pc = "off" /\ CallWith(UIInputs)

\* if st.button("Simulate DFA for input ..."): if error: st.error(...)
\* else: the replay loop starts
ClickSimulate ==
    /\ pc = "returned"
    /\ replay.pc = "off"
    /\ replay' = IF Error /= NoError
                 THEN [ReplayOff EXCEPT !.pc = "done", !.shown_error = Error]
                 ELSE [ReplayOff EXCEPT !.pc = "frames"]
    /\ UNCHANGED <<option, dfa, input_string, pc, current_state, path, pos, result,
                   prior, runs>>

\* the user presses Stop Simulation; nothing in the handler clears the flag
PressStop ==
    /\ replay.pc \in {"frames", "after"}
    /\ ~replay.stop
    /\ replay' = [replay EXCEPT !.stop = TRUE]
    /\ UNCHANGED <<option, dfa, input_string, pc, current_state, path, pos, result,
                   prior, runs>>

\* if st.session_state.get("stop_sim_..."): st.warning(...); break
ReplayStopped ==
    /\ replay.pc = "frames"
    /\ replay.stop
    /\ replay' = [replay EXCEPT !.warned = TRUE, !.pc = "after"]
    /\ UNCHANGED <<option, dfa, input_string, pc, current_state, path, pos, result,
                   prior, runs>>

\* one iteration of for step_idx, (state, symbol) in enumerate(path) past
\* the stop check; the loop is left after the last element
ReplayFrame ==
    /\ replay.pc = "frames"
    /\ ~replay.stop
    /\ LET element == Trace[replay.step_idx + 1]
       IN  replay' = [replay EXCEPT
                         !.frames = Append(@, Frame(replay.step_idx, element[1],
                                                    element[2])),
                         !.step_idx = @ + 1,
                         !.pc = IF replay.step_idx + 1 = Len(Trace)
                                THEN "after" ELSE "frames"]
    /\ UNCHANGED <<option, dfa, input_string, pc, current_state, path, pos, result,
                   prior, runs>>

\* variant: the verdict is shown whatever the stop flag says
ReplayVerdict_unconditional ==
    /\ replay.pc = "after"
    /\ replay' = [replay EXCEPT
                     !.verdict = IF Accepted THEN "ACCEPTED" ELSE "REJECTED",
                     !.pc = "done"]
    /\ UNCHANGED <<option, dfa, input_string, pc, current_state, path, pos, result,
                   prior, runs>>

\* if not st.session_state.get("stop_sim_..."): ACCEPTED or REJECTED
ReplayVerdict ==
    /\ replay.pc = "after"
    /\ replay' = [replay EXCEPT
                     !.verdict = IF replay.stop THEN "none"
                                 ELSE IF Accepted THEN "ACCEPTED" ELSE "REJECTED",
                     !.pc = "done"]
    /\ UNCHANGED <<option, dfa, input_string, pc, current_state, path, pos, result,
                   prior, runs>>

\* the script runs again: the button reads False and the page is redrawn
Rerun ==
    /\ replay.pc = "done"
    /\ replay' = ReplayOff
    /\ UNCHANGED <<option, dfa, input_string, pc, current_state, path, pos, result,
                   prior, runs>>

ReplayStep ==
    \/ ReplayStopped
    \/ ReplayFrame
    \/ ReplayVerdict

NextUI ==
    \/ UISelect
    \/ UICall
    \/ ReturnInvalidSymbol
    \/ ReturnNoTransition
    \/ Advance
    \/ Finish_ab
    \/ Finish_01
    \/ ClickSimulate
    \/ PressStop
    \/ ReplayStopped
    \/ ReplayFrame
    \/ ReplayVerdict
    \/ Rerun

SpecUI == Init /\ [][NextUI]_vars

\* the handler runs to its end: each iteration sleeps 0.9 s and goes on
FairSpecUI == SpecUI /\ WF_vars(LoopStep) /\ WF_vars(ReplayStep)

\* ------------------------------------- the constructor on any arguments
\* a/b definitions that break the data-model invariant, one way each
MalformedDefinitions ==
    {DFA__init__(states_ab, states_01, {"a", "b"}, transition_function_ab,
                 "S", accept_states_ab, accept_states_01),
     DFA__init__(states_ab, states_01, {"a", "b"}, transition_function_ab,
                 start_state, {"19", "99"}, accept_states_01),
     DFA__init__(states_ab, states_01, {"a", "b"},
                 DictLiteral(Append(transition_entries_ab, <<"7", "a", "X">>)),
                 start_state, accept_states_ab, accept_states_01),
     DFA__init__(states_ab, states_01, {"a", "b"},
                 DictLiteral(Append(transition_entries_ab, <<"Q", "a", "0">>)),
                 start_state, accept_states_ab, accept_states_01),
     DFA__init__(states_ab, states_01, {"a", "b"},
                 DictLiteral(Append(transition_entries_ab, <<"0", "c", "1">>)),
                 start_state, accept_states_ab, accept_states_01)}

\* DFA(...) called with arguments other than the two hardcoded tables
Construct ==
    /\ pc \in {"idle", "returned"}
    /\ \E d \in MalformedDefinitions : dfa' = d
    /\ option' = "a and b"
    /\ pc' = "idle"
    /\ input_string' = <<>>
    /\ current_state' = None
    /\ path' = <<>>
    /\ pos' = 0
    /\ result' = <<>>
    /\ UNCHANGED <<prior, pagevars>>

NextCtor ==
    \/ Construct
    \/ SelectLanguage
    \/ CallDet
    \/ ReturnInvalidSymbol
    \/ ReturnNoTransition
    \/ Advance
    \/ Finish_ab
    \/ Finish_01

SpecCtor == Init /\ [][NextCtor]_vars

\* the statements of a running call are executed one after the other
FairSpec == Spec /\ WF_vars(LoopStep)

IsInvalidSymbol(e) == e.message = "Invalid symbol"
IsNoTransition(e) == e.message = "No transition"

\* the walk the definition prescribes: the state after the first n symbols
\* of s, None once a symbol is foreign or a table entry is missing
RECURSIVE WalkState(_, _, _)
WalkState(d, s, n) ==
    IF n = 0 THEN d.start_state
    ELSE LET q == WalkState(d, s, n - 1)
         IN  IF q = None \/ s[n] \notin d.alphabet THEN None
             ELSE Get(d.transition_function, <<q, s[n]>>)

\* number of symbols of s consumed before the first error
ConsumedCount(d, s) == Cardinality({n \in 1..Len(s) : WalkState(d, s, n) /= None})

\* positions (from 1) of the symbols of s outside the alphabet of d
ForeignPositions(d, s) == {n \in 1..Len(s) : s[n] \notin d.alphabet}

FirstForeign(d, s) ==
    CHOOSE n \in ForeignPositions(d, s) : \A k \in ForeignPositions(d, s) : n <= k

\* the accept states of the selected definition, as the spec lists them
AcceptStatesOf(opt) ==
    IF opt = "a and b" THEN {"19", "22"} ELSE {"30", "31", "32"}

\* ------------------------------------------------------------- the claims

\* C1: a returned trace has length 1 + k, where k is the number of symbols
\* consumed before the first error, or len(s) when there was no error.
C1_TraceLength ==
    Returned =>
        Len(Trace) = 1 + (IF Error = NoError THEN Len(input_string)
                          ELSE ConsumedCount(dfa, input_string))

\* an error in the middle of the input: some symbols consumed, some left
C1_Witness ==
    /\ Returned
    /\ Error /= NoError
    /\ Len(Trace) > 1
    /\ Len(Trace) < Len(input_string)

\* C2 as stated: a symbol outside the alphabet anywhere in s makes the
\* result an InvalidSymbol error with accepted = false.
C2_Original ==
    (Returned /\ ForeignPositions(dfa, input_string) /= {}) =>
        (IsInvalidSymbol(Error) /\ Accepted = FALSE)

\* C2 amended: a symbol outside the alphabet anywhere in s makes the result
\* an error with accepted = false; the error is InvalidSymbol exactly when
\* every symbol before the first foreign one was consumed, and otherwise it
\* is the NoTransition error of an earlier symbol.
C2_AlphabetGating ==
    (Returned /\ ForeignPositions(dfa, input_string) /= {}) =>
        /\ Error /= NoError
        /\ Accepted = FALSE
        /\ IsInvalidSymbol(Error) <=>
               Len(Trace) = FirstForeign(dfa, input_string)
        /\ ~IsInvalidSymbol(Error) =>
               /\ IsNoTransition(Error)
               /\ Len(Trace) < FirstForeign(dfa, input_string)

\* a foreign symbol sits behind a table gap: the gap is what gets reported
C2_Witness ==
    /\ Returned
    /\ ForeignPositions(dfa, input_string) /= {}
    /\ IsNoTransition(Error)

\* C3: a call that returns no error has consumed every symbol, and accepted
\* is true exactly when the last trace state is an accept state of the
\* selected definition ({19,22} for a/b, {30,31,32} for 0/1).
C3_TotalConsumption ==
    (Returned /\ Error = NoError) =>
        /\ Len(Trace) = Len(input_string) + 1
        /\ Accepted <=> (Trace[Len(Trace)][1] \in AcceptStatesOf(option))

\* an accepted string of the 0/1 definition
C3_Witness ==
    /\ Returned
    /\ Error = NoError
    /\ Accepted = TRUE
    /\ option = "0 and 1"
    /\ Len(input_string) > 0

\* C4: simulate is deterministic: a call with the definition and the string
\* of an earlier call, whatever calls ran in between, returns the same
\* trace, accepted and error.
C4_Determinism ==
    (Returned /\ prior /= <<>> /\ prior[1] = dfa /\ prior[2] = input_string) =>
        prior[3] = result

\* an accepted string is run again after its result was kept
C4_Witness ==
    /\ Returned
    /\ prior /= <<>>
    /\ prior[1] = dfa
    /\ prior[2] = input_string
    /\ Accepted = TRUE
    /\ prior[3][2] = TRUE

\* a state whose table entries all lead back to itself
IsTrap(d, q) ==
    /\ \E k \in DOMAIN d.transition_function : k[1] = q
    /\ \A k \in DOMAIN d.transition_function :
          k[1] = q => d.transition_function[k] = q

\* C5: entering a trap state before the end of the input does not stop the
\* walk: if the remaining symbols have defined transitions, one trace step
\* is appended for each of them, no error is returned and acceptance is
\* decided only after the last symbol.
C5_TrapNonHalting ==
    Returned =>
        \A k \in 1..Len(Trace) :
            (/\ k <= Len(input_string)
             /\ IsTrap(dfa, Trace[k][1])
             /\ \A j \in k..Len(input_string) :
                   /\ input_string[j] \in dfa.alphabet
                   /\ <<Trace[k][1], input_string[j]>> \in DOMAIN dfa.transition_function)
            => /\ Error = NoError
               /\ Len(Trace) = Len(input_string) + 1
               /\ pos = Len(input_string)

\* a walk that entered T1, T2 or T3 with symbols left and ran to the end
C5_Witness ==
    /\ Returned
    /\ Error = NoError
    /\ \E k \in 2..(Len(Trace) - 1) :
          /\ Trace[k][1] \in {"T1", "T2", "T3"}
          /\ IsTrap(dfa, Trace[k][1])

\* C6: for the empty input the trace is exactly [(0, None)], there is no
\* error, and accepted equals (start_state in accept_states), which is
\* false for both definitions.
C6_EmptyInput ==
    (Returned /\ input_string = <<>>) =>
        /\ Trace = <<<<"0", None>>>>
        /\ Error = NoError
        /\ Accepted = (dfa.start_state \in AcceptStatesOf(option))
        /\ Accepted = FALSE
        /\ pos = 0

\* the empty string was run through the 0/1 definition
C6_Witness ==
    /\ Returned
    /\ input_string = <<>>
    /\ option = "0 and 1"
    /\ Len(Trace) = 1

\* C7: the error returned for a symbol outside the alphabet carries the
\* offending symbol and its position in the input, and the trace length is
\* that position plus one.
C7_ErrorCarriesPosition ==
    (Returned /\ IsInvalidSymbol(Error)) =>
        /\ Error.symbol = input_string[Len(Trace)]
        /\ "position" \in DOMAIN Error
        /\ Error.position + 1 = Len(Trace)

\* C8: simulate aborts at the first symbol that is foreign or has no table
\* entry; the error is 'Invalid symbol' exactly when that symbol is outside
\* the alphabet and 'No transition' (naming the current state and the
\* symbol) exactly when it is in the alphabet but the table has no entry;
\* no run reports both and the two descriptors are never equal.
C8_DistinctFailureModes ==
    (Returned /\ Error /= NoError) =>
        /\ Len(Trace) <= Len(input_string)
        /\ LET n == Len(Trace)
               symbol == input_string[n]
               state == Trace[n][1]
               tf == dfa.transition_function
           IN  /\ \A j \in 1..(n - 1) :
                     /\ input_string[j] \in dfa.alphabet
                     /\ <<Trace[j][1], input_string[j]>> \in DOMAIN tf
               /\ symbol \notin dfa.alphabet \/ <<state, symbol>> \notin DOMAIN tf
               /\ IsInvalidSymbol(Error) <=> symbol \notin dfa.alphabet
               /\ IsNoTransition(Error) <=>
                     (symbol \in dfa.alphabet /\ <<state, symbol>> \notin DOMAIN tf)
               /\ IsInvalidSymbol(Error) => Error.symbol = symbol
               /\ IsNoTransition(Error) =>
                     (Error.state = state /\ Error.symbol = symbol)
               /\ ~(IsInvalidSymbol(Error) /\ IsNoTransition(Error))
               /\ InvalidSymbolMessage(symbol) /= NoTransitionMessage(state, symbol)

\* the 0/1 walk stopped on the missing entry of its table
C8_Witness ==
    /\ Returned
    /\ IsNoTransition(Error)
    /\ option = "0 and 1"
    /\ input_string[Len(Trace)] \in dfa.alphabet

\* the steps the definition prescribes for the first n symbols of s
WalkPrefix(d, s, n) ==
    [j \in 1..(n + 1) |->
        IF j = 1 THEN <<d.start_state, None>>
        ELSE <<WalkState(d, s, j - 1), s[j - 1]>>]

\* C9: simulate never raises: every call returns a (trace, accepted, error)
\* after at most len(s) loop iterations; when an error is returned, accepted
\* is false and the trace is the prefix of steps completed before the
\* failing symbol.
C9_AlwaysReturns ==
    /\ [](pos <= Len(input_string))
    /\ [](Returned =>
            /\ Len(result) = 3
            /\ Accepted \in BOOLEAN
            /\ Error /= NoError =>
                  /\ Accepted = FALSE
                  /\ Len(Trace) <= Len(input_string)
                  /\ Trace = WalkPrefix(dfa, input_string, Len(Trace) - 1)
                  /\ WalkState(dfa, input_string, Len(Trace)) = None)
    /\ ((pc = "loop") ~> Returned)

\* an a/b call that returned an error after consuming two symbols or more
C9_Witness ==
    /\ Returned
    /\ Error /= NoError
    /\ option = "a and b"
    /\ Len(Trace) >= 3

\* the data-model invariant of the definition the selected language uses
WellFormed(opt, d) ==
    LET states == IF opt = "a and b" THEN d.states_ab ELSE d.states_01
        accept == IF opt = "a and b" THEN d.accept_states_ab ELSE d.accept_states_01
    IN  /\ d.start_state \in states
        /\ accept \subseteq states
        /\ \A k \in DOMAIN d.transition_function :
              /\ k[1] \in states
              /\ k[2] \in d.alphabet
              /\ d.transition_function[k] \in states

\* C10: construction fails on a definition that violates the well-formedness
\* invariant, so every DFA object that exists, and every one a simulation
\* runs on, is well-formed.
C10_MalformedRejected == WellFormed(option, dfa)

\* the states the selected language declares
StatesOf(opt, d) == IF opt = "a and b" THEN d.states_ab ELSE d.states_01

\* C11: both hardcoded definitions satisfy the data-model invariant (start
\* state and accept states declared, every key state and target declared,
\* every key symbol in the alphabet), hence every state of a trace is a
\* declared state.
C11_HardcodedWellFormed ==
    /\ dfa_ab.alphabet = {"a", "b"}
    /\ dfa_01.alphabet = {"0", "1"}
    /\ WellFormed("a and b", dfa_ab)
    /\ WellFormed("0 and 1", dfa_01)
    /\ \A k \in DOMAIN path : path[k][1] \in StatesOf(option, dfa)
    /\ Returned => \A k \in DOMAIN Trace : Trace[k][1] \in StatesOf(option, dfa)

\* an a/b trace that went through the trap state T2
C11_Witness ==
    /\ Returned
    /\ option = "a and b"
    /\ \E k \in DOMAIN Trace : Trace[k][1] = "T2"

\* ------------------------------------------------- regular expressions
\* an expression is a literal word, an alternation (+), a concatenation or
\* a Kleene star
Lit(w) == [op |-> "lit", w |-> w]
Alt(rs) == [op |-> "alt", rs |-> rs]
Cat(rs) == [op |-> "cat", rs |-> rs]
Star(r) == [op |-> "star", r |-> r]

\* the positions of s where a match of r can end when it starts at a
\* position of P (positions count the symbols already read)
RECURSIVE Ends(_, _, _)
RECURSIVE CatEnds(_, _, _, _)
RECURSIVE StarEnds(_, _, _)
Ends(r, s, P) ==
    CASE r.op = "lit" ->
            {p + Len(r.w) : p \in {q \in P : /\ q + Len(r.w) <= Len(s)
                                              /\ SubSeq(s, q + 1, q + Len(r.w)) = r.w}}
      [] r.op = "alt" -> UNION {Ends(r.rs[i], s, P) : i \in DOMAIN r.rs}
      [] r.op = "cat" -> CatEnds(r.rs, 1, s, P)
      [] r.op = "star" -> StarEnds(r.r, s, P)

CatEnds(rs, i, s, P) ==
    IF i > Len(rs) THEN P ELSE CatEnds(rs, i + 1, s, Ends(rs[i], s, P))

StarEnds(r, s, P) ==
    LET Q == P \cup Ends(r, s, P)
    IN  IF Q = P THEN P ELSE StarEnds(r, s, Q)

\* s belongs to the language of r
Matches(r, s) == Len(s) \in Ends(r, s, {0})

La == Lit(<<"a">>)
Lb == Lit(<<"b">>)
L0 == Lit(<<"0">>)
L1 == Lit(<<"1">>)

\* (aa+bb) (aba+bab+bbb) (a+b)* (aa+bb) (aa+bb)* (ab* ab* a) (ab* ab* a)*
\* (bbb+aaa) (a+b)*
regex_ab ==
    LET aabb == Alt(<<Lit(<<"a", "a">>), Lit(<<"b", "b">>)>>)
        abaa == Cat(<<La, Star(Lb), La, Star(Lb), La>>)
    IN  Cat(<<aabb,
              Alt(<<Lit(<<"a", "b", "a">>), Lit(<<"b", "a", "b">>), Lit(<<"b", "b", "b">>)>>),
              Star(Alt(<<La, Lb>>)),
              aabb,
              Star(aabb),
              abaa,
              Star(abaa),
              Alt(<<Lit(<<"b", "b", "b">>), Lit(<<"a", "a", "a">>)>>),
              Star(Alt(<<La, Lb>>))>>)

\* (1* 01* 01*) (11+00) (10+01)* (1+0) (11+00) (1+0+11+00+101+111+000)
\* (11+00)* (10* 10* 1) (11+00)*
regex_01 ==
    LET oozz == Alt(<<Lit(<<"1", "1">>), Lit(<<"0", "0">>)>>)
    IN  Cat(<<Cat(<<Star(L1), L0, Star(L1), L0, Star(L1)>>),
              oozz,
              Star(Alt(<<Lit(<<"1", "0">>), Lit(<<"0", "1">>)>>)),
              Alt(<<L1, L0>>),
              oozz,
              Alt(<<L1, L0, Lit(<<"1", "1">>), Lit(<<"0", "0">>),
                    Lit(<<"1", "0", "1">>), Lit(<<"1", "1", "1">>),
                    Lit(<<"0", "0", "0">>)>>),
              Star(oozz),
              Cat(<<L1, Star(L0), L1, Star(L0), L1>>),
              Star(oozz)>>)

\* C12: for every string over {a,b}, simulate_dfa_ab accepts exactly when
\* the string belongs to the language of the expression displayed for the
\* a/b automaton.
C12_RegexAb ==
    (Returned /\ option = "a and b" /\ ForeignPositions(dfa, input_string) = {}) =>
        (Accepted <=> Matches(regex_ab, input_string))

\* C13: for every string over {0,1}, simulate_dfa_01 accepts exactly when
\* the string belongs to the language of the expression displayed for the
\* 0/1 automaton.
C13_Regex01 ==
    (Returned /\ option = "0 and 1" /\ ForeignPositions(dfa, input_string) = {}) =>
        (Accepted <=> Matches(regex_01, input_string))

\* C14: every string the sidebar lists as valid is accepted, without error,
\* by the automaton of its language.
C14_SidebarValid ==
    Returned =>
        /\ (option = "a and b" /\ input_string \in valid_strings_ab) =>
              (Accepted = TRUE /\ Error = NoError)
        /\ (option = "0 and 1" /\ input_string \in valid_strings_01) =>
              (Accepted = TRUE /\ Error = NoError)

\* the second valid a/b string of the sidebar (29 symbols) was run
C14_Witness ==
    /\ Returned
    /\ option = "a and b"
    /\ input_string \in valid_strings_ab
    /\ Len(input_string) = 29
    /\ Len(Trace) = 30

\* C15: every string the sidebar lists as invalid is not accepted by the
\* automaton of its language.
C15_SidebarInvalid ==
    Returned =>
        /\ (option = "a and b" /\ input_string \in invalid_strings_ab) =>
              Accepted = FALSE
        /\ (option = "0 and 1" /\ input_string \in invalid_strings_01) =>
              Accepted = FALSE

\* the first invalid a/b string of the sidebar (32 symbols) was run
C15_Witness ==
    /\ Returned
    /\ option = "a and b"
    /\ input_string \in invalid_strings_ab
    /\ Len(input_string) = 32
    /\ Error = NoError

\* C17: in the a/b table a key written more than once keeps the target
\* written last: (1,b) -> 3, (2,a) -> 3, (16,b) -> 20; so "bb" visits
\* 0,1,3 and "ba" appends exactly the steps 0 -> 1 on b and 1 -> T1 on a,
\* without error.
C17_LastWriteWins ==
    /\ \A n \in 1..Len(transition_entries_ab) :
          LET e == transition_entries_ab[n]
          IN  (\A j \in (n + 1)..Len(transition_entries_ab) :
                   <<transition_entries_ab[j][1], transition_entries_ab[j][2]>>
                       /= <<e[1], e[2]>>)
              => transition_function_ab[<<e[1], e[2]>>] = e[3]
    /\ transition_function_ab[<<"1", "b">>] = "3"
    /\ transition_function_ab[<<"2", "a">>] = "3"
    /\ transition_function_ab[<<"16", "b">>] = "20"
    /\ (Returned /\ option = "a and b" /\ input_string = <<"b", "b">>) =>
          /\ Trace = <<<<"0", None>>, <<"1", "b">>, <<"3", "b">>>>
          /\ Error = NoError
    /\ (Returned /\ option = "a and b" /\ input_string = <<"b", "a">>) =>
          /\ Trace = <<<<"0", None>>, <<"1", "b">>, <<"T1", "a">>>>
          /\ Error = NoError

\* "bb" was run through the a/b definition
C17_Witness ==
    /\ Returned
    /\ option = "a and b"
    /\ input_string = <<"b", "b">>
    /\ Len(Trace) = 3

\* draw_input_pointer: the column of character k of '  '.join(input_string)
\* and the column of the '^' under '   ' * position (all counted from 0)
CharColumn(k) == k * (1 + 2)
PointerColumn(position) == 3 * position

\* C18: a returned trace is a walk aligned with the input: element 0 is
\* (start_state, None); element i >= 1 carries input[i-1] and the table's
\* target from the previous element's state on that symbol; so the replay's
\* pointer position step_idx - 1 is under the character consumed at trace
\* step step_idx.
C18_AlignedWalk ==
    Returned =>
        /\ Trace[1] = <<dfa.start_state, None>>
        /\ \A i \in 1..(Len(Trace) - 1) :
              /\ Trace[i + 1][2] = input_string[i]
              /\ <<Trace[i][1], input_string[i]>> \in DOMAIN dfa.transition_function
              /\ Trace[i + 1][1] =
                    dfa.transition_function[<<Trace[i][1], input_string[i]>>]
              /\ input_string[InputPos(i) + 1] = Trace[i + 1][2]
              /\ PointerColumn(InputPos(i)) = CharColumn(i - 1)

\* a 0/1 trace of three steps or more that stayed in the same state twice
C18_Witness ==
    /\ Returned
    /\ option = "0 and 1"
    /\ Len(Trace) >= 4
    /\ Trace[2][1] = Trace[3][1]

\* what a call on s returns when nothing else runs
RECURSIVE RunAlone(_, _, _)
RunAlone(d, opt, run) ==
    IF run.pc = "returned" THEN run.result
    ELSE RunAlone(d, opt, RunStep(d, opt, run))

\* C16: when the loop steps of the calls of several input fields interleave
\* in any order over the shared definition, each call returns the trace,
\* accepted and error it returns when run alone, and no step changes the
\* definition.
C16_Independence ==
    /\ [](\A r \in Fields :
            runs[r].pc = "returned" =>
                runs[r].result =
                    RunAlone(DefinitionOf(option), option,
                             RunEntry(DefinitionOf(option), runs[r].input_string)))
    /\ [][(\E r \in Fields : runs[r].pc = "loop") => dfa' = dfa]_vars

\* field 1 has returned from an a/b walk while field 2 is in the middle of
\* its own and field 3 has returned an error
C16_Witness ==
    /\ option = "a and b"
    /\ runs[1].pc = "returned"
    /\ Len(runs[1].result[1]) = 3
    /\ runs[2].pc = "loop"
    /\ runs[2].pos = 1
    /\ runs[3].pc = "returned"
    /\ runs[3].result[3] /= NoError

\* C19: when the simulation ended with an error and the user asks for the
\* replay, the page shows one step per trace element completed before the
\* error.
C19_PartialTraceShown ==
    (replay.pc = "done" /\ replay.shown_error /= NoError) =>
        /\ Len(replay.frames) = Len(Trace)
        /\ \A k \in 1..Len(Trace) : replay.frames[k].active_state = Trace[k][1]

\* the replay of an error-free simulation has rendered a prefix of the trace
FramesFollowTrace ==
    /\ Len(replay.frames) <= Len(Trace)
    /\ Len(replay.frames) = replay.step_idx
    /\ \A k \in 1..Len(replay.frames) :
          replay.frames[k] = Frame(k - 1, Trace[k][1], Trace[k][2])

\* C20: in the replay of an error-free simulation the stop flag is checked
\* before every frame; when it is never set the replay renders one frame per
\* trace element, in trace order, with that element's state active, and then
\* shows ACCEPTED when accepted is true and REJECTED otherwise; once the
\* flag is seen set no further frame is rendered and no verdict is shown;
\* the replay always finishes, after at most len(trace) frames.
C20_Replay ==
    /\ []((replay.pc /= "off" /\ replay.shown_error = NoError) =>
            /\ Returned
            /\ FramesFollowTrace
            /\ (replay.pc = "done" /\ ~replay.stop) =>
                  /\ Len(replay.frames) = Len(Trace)
                  /\ replay.verdict = IF Accepted THEN "ACCEPTED" ELSE "REJECTED"
            /\ (replay.pc = "done" /\ replay.stop) => replay.verdict = "none"
            /\ replay.warned => replay.stop /\ Len(replay.frames) < Len(Trace)
            /\ replay.pc /= "done" => replay.verdict = "none")
    /\ [][/\ Len(replay'.frames) > Len(replay.frames) => ~replay.stop
          /\ (replay.stop /\ replay.pc \in {"frames", "after"}) =>
                /\ replay'.frames = replay.frames
                /\ replay'.verdict = "none"]_vars
    /\ ((replay.pc = "frames") ~> (replay.pc = "done"))

\* a replay stopped after its second frame: the warning is up, the other
\* elements of the trace were not rendered and there is no verdict
C20_Witness ==
    /\ replay.pc = "done"
    /\ replay.warned
    /\ Len(replay.frames) = 2
    /\ Len(Trace) > 2
    /\ replay.verdict = "none"

\* the states the tables call T1, T2 (and T3)
TrapStatesOf(opt) ==
    IF opt = "a and b" THEN {"T1", "T2"} ELSE {"T1", "T2", "T3"}

\* C21: in both hardcoded tables every trap state (T1, T2 of a/b; T1, T2, T3
\* of 0/1) is non-accepting and goes to itself on every symbol of its
\* alphabet; so for every input over the alphabet, once the trace holds a
\* trap state every later element has that state, there is no error and
\* accepted is false.
C21_TrapsAbsorb ==
    /\ \A opt \in Options :
          LET d == DefinitionOf(opt)
          IN  \A q \in TrapStatesOf(opt) :
                /\ q \in StatesOf(opt, d)
                /\ q \notin d.accept_states_ab \cup d.accept_states_01
                /\ \A c \in d.alphabet :
                      Get(d.transition_function, <<q, c>>) = q
    /\ (pc /= "idle" /\ ForeignPositions(dfa, input_string) = {}) =>
          \A k \in 1..Len(path) :
              path[k][1] \in TrapStatesOf(option) =>
                  /\ \A j \in k..Len(path) : path[j][1] = path[k][1]
                  /\ Returned =>
                        /\ Error = NoError
                        /\ Accepted = FALSE
                        /\ Trace = path
                        /\ Len(Trace) = Len(input_string) + 1

\* an a/b walk over {a, b} that entered a trap state with symbols left and
\* returned
C21_Witness ==
    /\ Returned
    /\ option = "a and b"
    /\ ForeignPositions(dfa, input_string) = {}
    /\ Len(Trace) >= 4
    /\ Trace[Len(Trace) - 1][1] \in TrapStatesOf(option)
    /\ Accepted = FALSE

\* C22: DFA.accepts agrees with the simulation functions: for the a/b
\* definition and every input string (strings with foreign symbols or
\* missing transitions included) dfa.accepts(s) equals the accepted flag
\* simulate_dfa_ab returns, and likewise for 0/1 and simulate_dfa_01.
C22_AcceptsAgrees ==
    Returned => accepts(dfa, input_string) = Accepted

\* a 0/1 call that returned accepted, which accepts decides from
\* accept_states_01
C22_Witness ==
    /\ Returned
    /\ option = "0 and 1"
    /\ Accepted
    /\ accepts(dfa, input_string)

\* the (state, symbol) pairs of declared states and alphabet symbols that
\* the table of d has no entry for
Gaps(opt, d) ==
    {k \in StatesOf(opt, d) \X d.alphabet : k \notin DOMAIN d.transition_function}

\* the states the table of d leads to from the states of S
RECURSIVE ReachableFrom(_, _)
ReachableFrom(d, S) ==
    LET step == {Get(d.transition_function, <<q, c>>) : q \in S, c \in d.alphabet}
        N == S \cup (step \ {None})
    IN  IF N = S THEN S ELSE ReachableFrom(d, N)

\* the one gap the claim names for each language
GapOf(opt) == IF opt = "a and b" THEN <<"7", "a">> ELSE <<"29", "0">>

\* C23: each hardcoded table has exactly one gap over its own alphabet,
\* (7, 'a') for a/b and (29, '0') for 0/1, and its state is reachable from
\* the start state; for inputs over the alphabet the call returns a
\* 'No transition' error if and only if the walk is in that state and the
\* next symbol is that symbol.
C23_SingleGap ==
    /\ \A opt \in Options :
          LET d == DefinitionOf(opt)
          IN  /\ Gaps(opt, d) = {GapOf(opt)}
              /\ GapOf(opt)[1] \in ReachableFrom(d, {d.start_state})
    /\ (Returned /\ ForeignPositions(dfa, input_string) = {}) =>
          LET hits == {k \in 1..Len(input_string) :
                          /\ k <= Len(Trace)
                          /\ <<Trace[k][1], input_string[k]>> = GapOf(option)}
          IN  /\ IsNoTransition(Error) <=> hits /= {}
              /\ Error /= NoError <=> hits /= {}
              /\ IsNoTransition(Error) =>
                    /\ hits = {Len(Trace)}
                    /\ <<Error.state, Error.symbol>> = GapOf(option)

\* the call on aabaa returned 'No transition' from state 7 on 'a'
C23_Witness ==
    /\ Returned
    /\ option = "a and b"
    /\ input_string = <<"a", "a", "b", "a", "a">>
    /\ IsNoTransition(Error)
    /\ Error.state = "7"
    /\ Error.symbol = "a"

TypeOK ==
    /\ option \in Options
    /\ pc \in {"idle", "loop", "returned"}
    /\ pos \in 0..Len(input_string)
    /\ Returned => Accepted \in BOOLEAN

====
